---- MODULE Spec2Model ----
(***************************************************************************)
(* Model of libavfilter/vf_python.c: a video filter that hands every frame *)
(* to a function of an embedded Python module.  The filter's three         *)
(* callbacks (init, filter_frame, uninit) are the actions; the Python      *)
(* interpreter is modelled by the C-API calls the callbacks make.          *)
(***************************************************************************)
EXTENDS Integers, Sequences, FiniteSets, TLC

VARIABLES
    config,      \* PythonContext option fields (module, init_function, ...)
    pModule,     \* PythonContext.pModule
    pFunc,       \* PythonContext.pFunc
    phase,       \* where the host is in the filter's life
    runtime,     \* state of the embedded interpreter
    starts,      \* number of Py_Initialize calls
    stops,       \* number of Py_FinalizeEx calls
    refs,        \* per Python object: references owned by the filter
    nullRefOps,  \* C-API operations applied to a NULL reference, in order
    tmpRefs,     \* temporary references (tuples, call results) still owned
    pyErr,       \* the interpreter's pending-error indicator
    calls,       \* log of the Python callables invoked, in order
    events,      \* log of runtime starts/stops and reference operations, in order
    framesIn,    \* frames as the host delivered them
    exposed,     \* per frame: was the buffer writable when its address was passed
    forwarded,   \* frames handed to ff_filter_frame, in order
    frameRet,    \* per frame: downstream result and filter_frame's return value
    initRet      \* return value of init(), as a one-element sequence once returned

vars == <<config, pModule, pFunc, phase, runtime, starts, stops, refs, nullRefOps, tmpRefs,
          pyErr, calls, events, framesIn, exposed, forwarded, frameRet, initRet>>

----------------------------------------------------------------------------
(* Bounds *)

MaxFrames == 2

----------------------------------------------------------------------------
(* Constants of the program and of its platform *)

NULL == "NULL"

EINVAL == 22

AVERROR(e) == -e

----------------------------------------------------------------------------
(* The Python side: one importable module and its attributes *)

\* sys.modules/sys.path as seen by PyImport_Import
Importable == {"demo"}

\* the attributes of module demo: functions are callable, a value is not
ModuleDict ==
    [process |-> "function", setup |-> "function", bad_setup |-> "function",
     teardown |-> "function", bad_teardown |-> "function", const |-> "value"]

\* how a function of module demo ends when it is called
MayRaise(fn) ==
    CASE fn \in {"bad_setup", "bad_teardown"} -> {TRUE}
      [] fn = "process"                       -> BOOLEAN
      [] OTHER                                -> {FALSE}

Objects == Importable \cup DOMAIN ModuleDict

\* option values the host may configure (AVOption table; .str = NULL is unset)
ModuleOpts == {"demo", "nomod"}

FilterOpts == {"process", "const", "nosuch"}

InitOpts == {NULL, "setup", "bad_setup", "const", "nosuch"}

InitArgOpts == {NULL, "gain=2"}

UninitOpts == {NULL, "teardown", "bad_teardown", "const", "nosuch"}

PythonContext ==
    [module : ModuleOpts, init_function : InitOpts, init_args : InitArgOpts,
     filter_function : FilterOpts, uninit_function : UninitOpts]

----------------------------------------------------------------------------
(* Frames *)

\* inlink->time_base
time_base == [num |-> 1, den |-> 25]

PtsValues == {0, 1}

Buffers == {"buf0"}

\* the buffer av_frame_make_writable allocates when it has to copy
CopyOf(b) == "copy_" \o b

AVFrame ==
    [pts : PtsValues, width : {64}, height : {48}, data0 : Buffers,
     writable : BOOLEAN]

\* results ff_filter_frame may give
DownstreamResults == {0, AVERROR(EINVAL)}

----------------------------------------------------------------------------
(* C-API calls *)

RECURSIVE Gcd(_, _)
Gcd(a, b) == IF b = 0 THEN a ELSE Gcd(b, a % b)

\* av_q2d(q) = q.num / (double) q.den; a double is kept as an exact fraction
Fraction(n, d) ==
    LET g == Gcd(n, d) IN IF g = 0 THEN <<0, 1>> ELSE <<n \div g, d \div g>>

\* in->pts * av_q2d(inlink->time_base)
Timestamp(pts, tb) == Fraction(pts * tb.num, tb.den)

PyFloat_FromDouble(x) == <<"float", x>>

PyLong_FromLong(v) == <<"int", v>>

PyUnicode_DecodeFSDefault(s) == <<"str", s>>

PyImport_Import(name) == IF name \in Importable THEN name ELSE NULL

PyObject_GetAttrString(m, name) ==
    IF name \in DOMAIN ModuleDict THEN name ELSE NULL

PyCallable_Check(o) == ModuleDict[o] = "function"

\* the interpreter runtime: off, live, finalized
Py_Initialize(rt) == "live"

Py_FinalizeEx(rt) == "finalized"

\* reference counting of the objects the filter owns references to
NoRefs == [o \in Objects |-> 0]

Py_INCREF(r, o) == IF o = NULL THEN r ELSE [r EXCEPT ![o] = @ + 1]

Py_DECREF(r, o) == [r EXCEPT ![o] = @ - 1]

Py_XDECREF(r, o) == IF o = NULL THEN r ELSE Py_DECREF(r, o)

\* PyObject_CallObject: the callable runs; the result is NULL when it raises
\* or when an error was already pending (the result check refuses it)
CallRaised(pend, raises) == pend \/ raises

\* one entry of the call log: what was called, with what, while the runtime
\* was in state rt, after seen frames had been handled
CallRecord(kind, fn, args, raised, rt, seen) ==
    [kind |-> kind, fn |-> fn, args |-> args, raised |-> raised,
     rt |-> rt, seen |-> seen]

\* one entry of the event log: an operation on the runtime or on a reference
\* to obj, made while the runtime was in state rt
Ev(op, obj, rt) == [op |-> op, obj |-> obj, rt |-> rt]

\* the event of acquiring a reference: none when the lookup gave NULL
Acquired(obj, rt) == IF obj = NULL THEN <<>> ELSE <<Ev("acquire", obj, rt)>>

\* what dereferencing a null pointer does: the access traps and the process
\* dies, or it goes through and reads nothing useful
UBOutcomes == {"trap", "continue"}

\* the string read through a null char pointer when the access goes through
GarbageString == ""

----------------------------------------------------------------------------
Init ==
    /\ config \in PythonContext
    /\ pModule = NULL
    /\ pFunc = NULL
    /\ phase = "Uninitialized"
    /\ runtime = "off"
    /\ starts = 0
    /\ stops = 0
    /\ refs = NoRefs
    /\ nullRefOps = <<>>
    /\ tmpRefs = 0
    /\ pyErr = FALSE
    /\ calls = <<>>
    /\ events = <<>>
    /\ framesIn = <<>>
    /\ exposed = <<>>
    /\ forwarded = <<>>
    /\ frameRet = <<>>
    /\ initRet = <<>>

----------------------------------------------------------------------------
(* init *)

\* a variant that returns the errno value without AVERROR
FilterLoadError_Positive == EINVAL

\* a variant that logs and falls through to the success return
FilterLoadError_FallThrough == AVERROR(0)

\* init(), line 201
FilterLoadError == AVERROR(EINVAL)

\* a variant that logs and falls through to the success return
InitCallError_FallThrough == AVERROR(0)

\* init(), line 206
InitCallError == AVERROR(EINVAL)

\* a variant that logs and falls through to the success return
ModuleLoadError_FallThrough == AVERROR(0)

\* init(), line 210
ModuleLoadError == AVERROR(EINVAL)

\* the argument tuple of the initializer
InitArgs(s) == <<PyUnicode_DecodeFSDefault(s)>>

\* check_and_call_init(py_context), on the module m with references r0,
\* pending error e0 and call log c0
check_and_call_init(m, r0, e0, c0, rt, raises, ub) ==
    IF config.init_function # NULL THEN
        LET f  == PyObject_GetAttrString(m, config.init_function)
            r1 == Py_INCREF(r0, f)
            e1 == e0 \/ f = NULL
        IN  IF f # NULL /\ PyCallable_Check(f) THEN
                IF config.init_args = NULL /\ ub = "trap" THEN
                    [ret |-> 0, crashed |-> TRUE, refs |-> r1, err |-> e1,
                     calls |-> c0, nullOps |-> <<"PyUnicode_DecodeFSDefault">>,
                     events |-> Acquired(f, rt)]
                ELSE
                    LET s == IF config.init_args = NULL THEN GarbageString
                             ELSE config.init_args
                        raised == CallRaised(e1, raises)
                    IN  [ret |-> 0, crashed |-> FALSE,
                         refs |-> Py_XDECREF(r1, f), err |-> raised,
                         calls |-> Append(c0, CallRecord("init", f, InitArgs(s),
                                                         raised, rt, Len(framesIn))),
                         nullOps |-> IF config.init_args = NULL
                                     THEN <<"PyUnicode_DecodeFSDefault">>
                                     ELSE <<>>,
                         events |-> <<Ev("acquire", f, rt), Ev("call", f, rt),
                                      Ev("release", f, rt)>>]
            ELSE
                [ret |-> -1, crashed |-> FALSE, refs |-> Py_XDECREF(r1, f),
                 err |-> e1, calls |-> c0, nullOps |-> <<>>,
                 events |-> IF f = NULL THEN <<>>
                            ELSE <<Ev("acquire", f, rt), Ev("release", f, rt)>>]
    ELSE
        [ret |-> 0, crashed |-> FALSE, refs |-> r0, err |-> e0, calls |-> c0,
         nullOps |-> <<>>, events |-> <<>>]

\* a variant that runs the initializer right after the import, before the
\* filter function is looked up
init_body_InitFirst(rt, raises, ub) ==
    LET m  == PyImport_Import(config.module)
        r1 == Py_INCREF(refs, m)
    IN  IF m # NULL THEN
            LET ci == check_and_call_init(m, r1, FALSE, calls, rt, raises, ub)
                f  == PyObject_GetAttrString(m, config.filter_function)
                r2 == Py_INCREF(ci.refs, f)
            IN  IF ci.crashed \/ ci.ret < 0 THEN
                    [ret |-> InitCallError, crashed |-> ci.crashed,
                     pModule |-> m, pFunc |-> pFunc, refs |-> ci.refs,
                     err |-> ci.err, calls |-> ci.calls, nullOps |-> ci.nullOps,
                     events |-> Acquired(m, rt) \o ci.events]
                ELSE
                    [ret |-> IF f = NULL \/ ~PyCallable_Check(f)
                             THEN FilterLoadError ELSE 0,
                     crashed |-> FALSE, pModule |-> m, pFunc |-> f,
                     refs |-> r2, err |-> ci.err \/ f = NULL,
                     calls |-> ci.calls, nullOps |-> ci.nullOps,
                     events |-> Acquired(m, rt) \o ci.events \o Acquired(f, rt)]
        ELSE
            [ret |-> ModuleLoadError, crashed |-> FALSE, pModule |-> m,
             pFunc |-> pFunc, refs |-> r1, err |-> TRUE, calls |-> calls,
             nullOps |-> <<>>, events |-> <<>>]

\* the body of init() after Py_Initialize, the runtime being in state rt
init_body(rt, raises, ub) ==
    LET m  == PyImport_Import(config.module)
        r1 == Py_INCREF(refs, m)
    IN  IF m # NULL THEN
            LET f  == PyObject_GetAttrString(m, config.filter_function)
                r2 == Py_INCREF(r1, f)
            IN  IF f = NULL \/ ~PyCallable_Check(f) THEN
                    [ret |-> FilterLoadError, crashed |-> FALSE, pModule |-> m,
                     pFunc |-> f, refs |-> r2, err |-> f = NULL,
                     calls |-> calls, nullOps |-> <<>>,
                     events |-> Acquired(m, rt) \o Acquired(f, rt)]
                ELSE
                    LET ci == check_and_call_init(m, r2, FALSE, calls, rt,
                                                     raises, ub)
                    IN  [ret |-> IF ci.ret < 0 THEN InitCallError ELSE 0,
                         crashed |-> ci.crashed, pModule |-> m, pFunc |-> f,
                         refs |-> ci.refs, err |-> ci.err, calls |-> ci.calls,
                         nullOps |-> ci.nullOps,
                         events |-> Acquired(m, rt) \o Acquired(f, rt)
                                    \o ci.events]
        ELSE
            [ret |-> ModuleLoadError, crashed |-> FALSE, pModule |-> m,
             pFunc |-> pFunc, refs |-> r1, err |-> TRUE, calls |-> calls,
             nullOps |-> <<>>, events |-> <<>>]

\* the host calls init once, first
HostMayInit == phase = "Uninitialized"

init ==
    /\ HostMayInit
    /\ \E raises \in MayRaise(config.init_function), ub \in UBOutcomes :
        LET rt  == Py_Initialize(runtime)
            out == init_body(rt, raises, ub)
        IN  /\ runtime' = rt
            /\ starts' = starts + 1
            /\ pModule' = out.pModule
            /\ pFunc' = out.pFunc
            /\ refs' = out.refs
            /\ pyErr' = out.err
            /\ calls' = out.calls
            /\ events' = events \o <<Ev("start", "runtime", runtime)>>
                                 \o out.events
            /\ nullRefOps' = nullRefOps \o out.nullOps
            /\ initRet' = IF out.crashed THEN initRet ELSE <<out.ret>>
            /\ phase' = IF out.crashed THEN "CrashedInInit"
                        ELSE IF out.ret = 0 THEN "Steady" ELSE "Failed"
    /\ UNCHANGED <<config, stops, tmpRefs, framesIn, exposed, forwarded, frameRet>>

----------------------------------------------------------------------------
(* filter_frame *)

\* av_frame_make_writable(in): a writable frame is left alone; otherwise the
\* data is copied to a new buffer, which can fail and then changes nothing
av_frame_make_writable(in, ok) ==
    IF in.writable THEN in
    ELSE IF ok THEN [in EXCEPT !.data0 = CopyOf(@), !.writable = TRUE]
    ELSE in

\* a variant that fills slots 1 and 2 the other way round
FrameArgs_Swapped(in, tb) ==
    <<PyFloat_FromDouble(Timestamp(in.pts, tb)), PyLong_FromLong(in.height),
      PyLong_FromLong(in.width), PyLong_FromLong(in.data0)>>

\* the 4-tuple pArgs built from the frame
FrameArgs(in, tb) ==
    <<PyFloat_FromDouble(Timestamp(in.pts, tb)), PyLong_FromLong(in.width),
      PyLong_FromLong(in.height), PyLong_FromLong(in.data0)>>

\* temporary references after PyTuple_New and the PyTuple_SetItem calls
\* (the tuple owns its items)
AfterTupleNew(t) == t + 1

\* temporary references after the call returned pValue (NULL when raised)
AfterCall(t, raised) == IF raised THEN t ELSE t + 1

\* a variant that returns early, before the releases, when the call gave no
\* value
AfterFrameRelease_SkipOnNull(t, raised) == IF raised THEN t ELSE t - 2

\* Py_DECREF(pArgs); if (pValue != NULL) Py_DECREF(pValue);
AfterFrameRelease(t, raised) == IF raised THEN t - 1 ELSE t - 2

\* a variant that reports a failed call to the pipeline
filter_frame_ret_Propagating(raised, down) ==
    IF raised THEN AVERROR(EINVAL) ELSE down

\* a variant that returns success instead of the downstream result when the
\* call gave no value
filter_frame_ret_ZeroOnNull(raised, down) == IF raised THEN 0 ELSE down

\* return ff_filter_frame(outlink, in): the downstream result, whatever the
\* call gave
filter_frame_ret(raised, down) == down

\* the host delivers frames only to a filter whose init succeeded and which it
\* has not torn down
HostMayFilter == phase = "Steady"

filter_frame ==
    /\ HostMayFilter
    /\ Len(framesIn) < MaxFrames
    /\ \E in \in AVFrame, raises \in MayRaise(pFunc), down \in DownstreamResults,
          ub \in UBOutcomes :
        \E ok \in (IF in.writable THEN {TRUE} ELSE BOOLEAN) :
            LET in2    == av_frame_make_writable(in, ok)
                pArgs  == FrameArgs(in2, time_base)
                t1     == AfterTupleNew(tmpRefs)
                raised == IF pFunc = NULL THEN TRUE ELSE CallRaised(pyErr, raises)
                t2     == AfterCall(t1, raised)
            IN  /\ framesIn' = Append(framesIn, in)
                /\ IF pFunc = NULL /\ ub = "trap" THEN
                       /\ phase' = "CrashedInFrame"
                       /\ nullRefOps' = Append(nullRefOps, "PyObject_CallObject")
                       /\ tmpRefs' = t1
                       /\ UNCHANGED <<calls, events, exposed, forwarded, frameRet,
                                      pyErr>>
                   ELSE
                       /\ phase' = phase
                       /\ nullRefOps' = IF pFunc = NULL
                                        THEN Append(nullRefOps, "PyObject_CallObject")
                                        ELSE nullRefOps
                       /\ calls' = IF pFunc = NULL THEN calls
                                   ELSE Append(calls,
                                               CallRecord("filter", pFunc, pArgs,
                                                          raised, runtime,
                                                          Len(framesIn) + 1))
                       /\ events' = IF pFunc = NULL THEN events
                                    ELSE Append(events, Ev("call", pFunc, runtime))
                       /\ exposed' = Append(exposed, [addr |-> in2.data0,
                                                      writable |-> in2.writable])
                       /\ pyErr' = raised
                       /\ tmpRefs' = AfterFrameRelease(t2, raised)
                       /\ forwarded' = Append(forwarded, in2)
                       /\ frameRet' = Append(frameRet,
                                             [down |-> down,
                                              ret |-> filter_frame_ret(raised, down),
                                              tmpAtCall |-> t1,
                                              tmpAtForward |->
                                                  AfterFrameRelease(t2, raised)])
    /\ UNCHANGED <<config, pModule, pFunc, runtime, starts, stops, refs, initRet>>

----------------------------------------------------------------------------
(* uninit *)

\* a variant that passes the initializer's argument to the finalizer
UninitArgs_WithInitArgs == <<PyUnicode_DecodeFSDefault(config.init_args)>>

\* the argument tuple of the finalizer: PyTuple_New(0)
UninitArgs == <<>>

\* check_and_call_uninit(py_context)
check_and_call_uninit(r0, e0, c0, rt, raises, ub) ==
    IF config.uninit_function # NULL THEN
        IF pModule = NULL /\ ub = "trap" THEN
            [ret |-> 0, crashed |-> TRUE, refs |-> r0, err |-> e0, calls |-> c0,
             nullOps |-> <<"PyObject_GetAttrString">>, events |-> <<>>]
        ELSE
            LET f  == IF pModule = NULL THEN NULL
                      ELSE PyObject_GetAttrString(pModule, config.uninit_function)
                r1 == Py_INCREF(r0, f)
                e1 == e0 \/ f = NULL
                n1 == IF pModule = NULL THEN <<"PyObject_GetAttrString">> ELSE <<>>
            IN  IF f # NULL /\ PyCallable_Check(f) THEN
                    LET raised == CallRaised(e1, raises)
                    IN  [ret |-> 0, crashed |-> FALSE,
                         refs |-> Py_XDECREF(r1, f), err |-> raised,
                         calls |-> Append(c0, CallRecord("uninit", f, UninitArgs,
                                                         raised, rt,
                                                         Len(framesIn))),
                         nullOps |-> n1,
                         events |-> <<Ev("acquire", f, rt), Ev("call", f, rt),
                                      Ev("release", f, rt)>>]
                ELSE
                    [ret |-> -1, crashed |-> FALSE, refs |-> Py_XDECREF(r1, f),
                     err |-> e1, calls |-> c0, nullOps |-> n1,
                     events |-> IF f = NULL THEN <<>>
                                ELSE <<Ev("acquire", f, rt),
                                       Ev("release", f, rt)>>]
    ELSE
        [ret |-> 0, crashed |-> FALSE, refs |-> r0, err |-> e0, calls |-> c0,
         nullOps |-> <<>>, events |-> <<>>]

\* Py_DECREF(o) as uninit applies it to a stored reference: on NULL it
\* dereferences a null pointer
StoredDecref(st, o, ub) ==
    IF st.crashed THEN st
    ELSE IF o = NULL THEN
        [st EXCEPT !.crashed = (ub = "trap"),
                   !.nullOps = Append(@, "Py_DECREF")]
    ELSE [st EXCEPT !.refs = Py_DECREF(@, o), !.released = Append(@, o),
                    !.events = Append(@, Ev("release", o, st.rt))]

\* a variant that shuts the runtime down before it releases the references
uninit_body_FinalizeFirst(raises, ub) ==
    LET cu == check_and_call_uninit(refs, pyErr, calls, runtime, raises, ub)
        s0 == [crashed |-> cu.crashed, refs |-> cu.refs, nullOps |-> cu.nullOps,
               released |-> <<>>,
               rt |-> IF cu.crashed THEN runtime ELSE Py_FinalizeEx(runtime),
               events |-> IF cu.crashed THEN cu.events
                          ELSE Append(cu.events, Ev("stop", "runtime", runtime))]
        s1 == StoredDecref(s0, pFunc, ub)
        s2 == StoredDecref(s1, pModule, ub)
    IN  [crashed |-> s2.crashed, refs |-> s2.refs, nullOps |-> s2.nullOps,
         released |-> s2.released, err |-> cu.err, calls |-> cu.calls,
         runtime |-> s2.rt, stopped |-> ~cu.crashed, events |-> s2.events]

\* the body of uninit()
uninit_body(raises, ub) ==
    LET cu == check_and_call_uninit(refs, pyErr, calls, runtime, raises, ub)
        s0 == [crashed |-> cu.crashed, refs |-> cu.refs, nullOps |-> cu.nullOps,
               released |-> <<>>, rt |-> runtime, events |-> cu.events]
        s1 == StoredDecref(s0, pFunc, ub)
        s2 == StoredDecref(s1, pModule, ub)
    IN  [crashed |-> s2.crashed, refs |-> s2.refs, nullOps |-> s2.nullOps,
         released |-> s2.released, err |-> cu.err, calls |-> cu.calls,
         runtime |-> IF s2.crashed THEN s2.rt ELSE Py_FinalizeEx(s2.rt),
         stopped |-> ~s2.crashed,
         events |-> IF s2.crashed THEN s2.events
                    ELSE Append(s2.events, Ev("stop", "runtime", s2.rt))]

\* the host tears a filter down once: after the steady state, and also after
\* an init that failed
HostMayUninit == phase \in {"Steady", "Failed"}

uninit ==
    /\ HostMayUninit
    /\ \E raises \in MayRaise(config.uninit_function), ub \in UBOutcomes :
        LET out == uninit_body(raises, ub)
        IN  /\ refs' = out.refs
            /\ pyErr' = out.err
            /\ calls' = out.calls
            /\ events' = events \o out.events
            /\ nullRefOps' = nullRefOps \o out.nullOps
            /\ runtime' = out.runtime
            /\ stops' = IF out.stopped THEN stops + 1 ELSE stops
            /\ phase' = IF out.crashed THEN "CrashedInUninit" ELSE "Terminated"
    /\ UNCHANGED <<config, pModule, pFunc, starts, tmpRefs, framesIn, exposed,
                   forwarded, frameRet, initRet>>

----------------------------------------------------------------------------
Next == init \/ filter_frame \/ uninit

Spec == Init /\ [][Next]_vars

----------------------------------------------------------------------------
(* Vocabulary of the properties *)

ModuleResolvable == config.module \in Importable

AttrCallable(name) ==
    name \in DOMAIN ModuleDict /\ ModuleDict[name] = "function"

FilterCallable == AttrCallable(config.filter_function)

InitRan == phase # "Uninitialized"

InitReturned == initRet # <<>>

InitFailed == InitReturned /\ initRet[1] # 0

TeardownRan == phase \in {"Terminated", "CrashedInUninit"}

CallsOf(kind) == SelectSeq(calls, LAMBDA c : c.kind = kind)

FilterCalls == CallsOf("filter")

InitCallCount == Len(CallsOf("init"))

UninitCallCount == Len(CallsOf("uninit"))

SomeCallRaised(kind) ==
    \E i \in 1..Len(calls) : calls[i].kind = kind /\ calls[i].raised

----------------------------------------------------------------------------
C2_BadFilterSameErrorAsMissingModule ==
    /\ (ModuleResolvable /\ ~FilterCallable /\ InitRan) =>
           (InitFailed /\ initRet[1] = ModuleLoadError)
    /\ (~ModuleResolvable /\ InitRan) =>
           (InitFailed /\ initRet[1] = ModuleLoadError)

C2_Witness ==
    /\ ModuleResolvable
    /\ config.filter_function = "const"
    /\ InitFailed

(* C3 (as claimed): once the initializer has been called, with init_args   *)
(* configured, and has raised, init() has returned an error and the stage   *)
(* is not steady.                                                           *)
C3_InitCallFailureIsFatal ==
    (SomeCallRaised("init") /\ config.init_args # NULL) =>
        (InitFailed /\ phase # "Steady")

(* C4 (as claimed): uninit always runs to completion, no reference count    *)
(* ever goes below zero, and once uninit has run no reference the stage     *)
(* acquired is still held.                                                  *)
C4_TeardownCompletesAndReleasesOnce ==
    /\ phase # "CrashedInUninit"
    /\ \A o \in Objects : refs[o] >= 0
    /\ phase = "Terminated" =>
           /\ \A o \in Objects : refs[o] = 0
           /\ nullRefOps = <<>>

(* C5 (as claimed): with init_function unset the initializer is never       *)
(* called; with init_function naming a callable of a module that imports    *)
(* and has a callable filter function, once init() has run the initializer  *)
(* has been called exactly once, as the first call of all and before any    *)
(* frame, with the configured init_args string as its only argument.        *)
C5_InitializerCalledOnceFirstWithArgs ==
    /\ config.init_function = NULL => InitCallCount = 0
    /\ ( /\ config.init_function # NULL
         /\ ModuleResolvable /\ FilterCallable
         /\ AttrCallable(config.init_function)
         /\ InitRan ) =>
           /\ InitCallCount = 1
           /\ Len(calls) >= 1
           /\ calls[1].kind = "init"
           /\ calls[1].fn = config.init_function
           /\ calls[1].seen = 0
           /\ calls[1].args = <<<<"str", config.init_args>>>>

C7_HandlerCalledPerFrameInOrder ==
    /\ Len(FilterCalls) = Len(framesIn)
    /\ Len(forwarded) = Len(framesIn)
    /\ \A k \in 1..Len(FilterCalls) :
           /\ FilterCalls[k].seen = k
           /\ FilterCalls[k].fn = config.filter_function
           /\ FilterCalls[k].args =
                  << <<"float", Fraction(framesIn[k].pts * time_base.num,
                                         time_base.den)>>,
                     <<"int", framesIn[k].width>>,
                     <<"int", framesIn[k].height>>,
                     <<"int", forwarded[k].data0>> >>

C7_Witness ==
    /\ Len(FilterCalls) = MaxFrames
    /\ framesIn[1].pts # framesIn[MaxFrames].pts
    /\ forwarded[1].data0 # forwarded[MaxFrames].data0

(* C8: a frame whose handler call raised has been forwarded all the same,   *)
(* filter_frame returned for it what the downstream gave, the stage stays   *)
(* steady, and every frame delivered, the later ones included, has been     *)
(* handed to the handler and forwarded.                                     *)
C8_HandlerErrorDoesNotStopFrames ==
    /\ \A k \in 1..Len(FilterCalls) :
           FilterCalls[k].raised =>
               /\ Len(forwarded) >= k
               /\ forwarded[k].pts = framesIn[k].pts
               /\ Len(frameRet) >= k
               /\ frameRet[k].ret = frameRet[k].down
    /\ SomeCallRaised("filter") =>
           /\ phase \in {"Steady", "Terminated"}
           /\ Len(FilterCalls) = Len(framesIn)
           /\ Len(forwarded) = Len(framesIn)

C8_Witness ==
    /\ Len(FilterCalls) = MaxFrames
    /\ FilterCalls[1].raised
    /\ frameRet[1].ret = 0
    /\ Len(forwarded) = MaxFrames

(* C9 (as claimed): with a module that imports, a callable filter function  *)
(* and, when init_function is set, a callable initializer that does not     *)
(* raise, init() has returned 0 once it has run, and the stage is then      *)
(* steady until it is torn down.                                            *)
C9_ValidConfigActivates ==
    ( /\ ModuleResolvable /\ FilterCallable
      /\ config.init_function # NULL =>
             /\ AttrCallable(config.init_function)
             /\ MayRaise(config.init_function) = {FALSE}
      /\ InitRan ) =>
        /\ InitReturned
        /\ initRet[1] = 0
        /\ phase \in {"Steady", "Terminated"}

(* C10: when init_function is set and names a missing or a non-callable     *)
(* attribute, init() has returned AVERROR(EINVAL) once it has run, the      *)
(* initializer has never been called, the stage is never steady and no      *)
(* frame is delivered.                                                      *)
C10_BadInitializerAborts ==
    ( /\ config.init_function # NULL
      /\ ~AttrCallable(config.init_function)
      /\ InitRan ) =>
        /\ InitReturned
        /\ initRet[1] = AVERROR(EINVAL)
        /\ InitCallCount = 0
        /\ phase # "Steady"
        /\ framesIn = <<>>

C10_Witness ==
    /\ ModuleResolvable /\ FilterCallable
    /\ config.init_function = "const"
    /\ InitFailed
    /\ TeardownRan

(* C11 (as claimed): in every teardown, the one after a failed activation  *)
(* included, no release is ever applied to a reference that is NULL.        *)
C11_NoReleaseOfAbsentReference ==
    \A i \in 1..Len(nullRefOps) : nullRefOps[i] # "Py_DECREF"

(* C12 (as claimed): no attribute lookup is ever made on a module reference *)
(* that is NULL, the finalizer's lookup in a teardown after a failed import *)
(* included.                                                                *)
C12_NoLookupOnAbsentModule ==
    \A i \in 1..Len(nullRefOps) : nullRefOps[i] # "PyObject_GetAttrString"

(* C13 (as claimed): when a handler call has raised (and the initializer    *)
(* had not), no error is pending in the interpreter once filter_frame has   *)
(* returned, that is when the next handler call or the finalizer begins.    *)
C13_PendingErrorClearedAfterFrame ==
    ( /\ SomeCallRaised("filter")
      /\ ~SomeCallRaised("init")
      /\ phase = "Steady" ) => ~pyErr

(* C14 (as claimed): every buffer address handed to the handler belonged to *)
(* a frame that was writable at that moment.                                *)
C14_AddressExposedOnlyWhenWritable ==
    \A k \in 1..Len(exposed) : exposed[k].writable

(* C17 (as claimed): the runtime is started at most once, never stopped     *)
(* more often than started, the teardown never dies before the stop, and    *)
(* once the teardown has run the one start is matched by one stop.          *)
C17_EveryStartMatchedByOneStop ==
    /\ starts <= 1
    /\ stops <= starts
    /\ phase # "CrashedInUninit"
    /\ phase = "Terminated" =>
           (starts = 1 /\ stops = 1 /\ runtime = "finalized")

(* C18: while the stage is steady (init() has returned 0 and uninit has    *)
(* not begun), the stored module reference and the stored filter reference  *)
(* are not NULL, the module is the one configured, and the filter reference *)
(* designates the configured attribute, which is a function.                *)
C18_BoundReferencesNonNullWhileSteady ==
    phase = "Steady" =>
        /\ InitReturned /\ initRet[1] = 0
        /\ pModule # NULL
        /\ pModule = config.module
        /\ pFunc # NULL
        /\ pFunc = config.filter_function
        /\ pFunc \in DOMAIN ModuleDict
        /\ ModuleDict[pFunc] = "function"
        /\ refs[pModule] = 1
        /\ refs[pFunc] = 1

C18_Witness ==
    /\ phase = "Steady"
    /\ Len(framesIn) = MaxFrames
    /\ pFunc = "process"

(* C19: every frame delivered has been forwarded exactly once, in order,    *)
(* with the pts, width and height it came with and its own buffer or the    *)
(* writable copy of it, and filter_frame returned for it exactly what the   *)
(* downstream gave, whether the handler call returned a value or raised.    *)
C19_ForwardingIndependentOfHandler ==
    /\ Len(forwarded) = Len(framesIn)
    /\ Len(frameRet) = Len(framesIn)
    /\ \A k \in 1..Len(framesIn) :
           /\ forwarded[k].pts = framesIn[k].pts
           /\ forwarded[k].width = framesIn[k].width
           /\ forwarded[k].height = framesIn[k].height
           /\ forwarded[k].data0 \in
                  {framesIn[k].data0, CopyOf(framesIn[k].data0)}
           /\ frameRet[k].ret = frameRet[k].down

C19_Witness ==
    /\ Len(FilterCalls) = MaxFrames
    /\ ~FilterCalls[1].raised
    /\ frameRet[1].ret = AVERROR(EINVAL)
    /\ FilterCalls[MaxFrames].raised
    /\ frameRet[MaxFrames].ret = AVERROR(EINVAL)
    /\ forwarded[MaxFrames].data0 # framesIn[MaxFrames].data0

(* C20: when the module does not import, or the filter attribute is missing *)
(* or not callable, the initializer has never been called, whatever         *)
(* init_function names.                                                     *)
C20_NoInitializerCallBeforeFilterResolved ==
    (~ModuleResolvable \/ ~FilterCallable) => InitCallCount = 0

C20_Witness ==
    /\ ModuleResolvable
    /\ ~FilterCallable
    /\ config.init_function = "setup"
    /\ config.init_args # NULL
    /\ InitFailed
    /\ TeardownRan

(* C15: for every frame handled, exactly one temporary (the argument       *)
(* tuple, which owns its four items) was live when the handler was called,  *)
(* none was left when the frame was forwarded, whether the call gave a      *)
(* value or raised; the count of live temporaries never goes below zero     *)
(* and is zero between frames.                                              *)
C15_TemporariesReleasedEachFrame ==
    /\ tmpRefs = 0
    /\ Len(frameRet) = Len(framesIn)
    /\ \A k \in 1..Len(frameRet) :
           /\ frameRet[k].tmpAtCall = 1
           /\ frameRet[k].tmpAtForward = 0

C15_Witness ==
    /\ Len(FilterCalls) = MaxFrames
    /\ ~FilterCalls[1].raised
    /\ FilterCalls[MaxFrames].raised
    /\ tmpRefs = 0

EventIndexes(op) == {i \in 1..Len(events) : events[i].op = op}

(* C16: every acquisition, call and release of a reference happens while    *)
(* the runtime is live; the runtime is started before anything else and     *)
(* nothing happens after it is stopped; and a deactivation that follows a   *)
(* successful activation ends with the release of the filter reference,     *)
(* then the release of the module reference, then the stop, all calls       *)
(* (the finalizer's included) coming before.                                *)
C16_ReferencesLiveOnlyWhileRuntimeLive ==
    /\ \A i \in 1..Len(events) :
           /\ events[i].op \in {"acquire", "call", "release"} =>
                  events[i].rt = "live"
           /\ events[i].op = "start" => i = 1
           /\ events[i].op = "stop" => i = Len(events)
    /\ (phase = "Terminated" /\ InitReturned /\ initRet[1] = 0) =>
           LET n == Len(events)
           IN  /\ n >= 6
               /\ events[n] = Ev("stop", "runtime", "live")
               /\ events[n - 1] = Ev("release", pModule, "live")
               /\ events[n - 2] = Ev("release", pFunc, "live")
               /\ \A i \in EventIndexes("call") : i < n - 2
               /\ UninitCallCount = 1 =>
                      events[n - 4] = Ev("call", config.uninit_function, "live")

C16_Witness ==
    /\ phase = "Terminated"
    /\ InitReturned /\ initRet[1] = 0
    /\ UninitCallCount = 1
    /\ Len(FilterCalls) = MaxFrames

====
